---------------------------- MODULE Spec2Model ----------------------------
(***************************************************************************)
(* RiftSerializer: the sequential buffer Builder (Builder.h), the          *)
(* View/Accessor layer (Accessor.h) and the endian/alignment utilities     *)
(* (Common.h), as a state machine.                                         *)
(*                                                                         *)
(* Representation.  A scalar of width w is the sequence of its w bytes,    *)
(* least significant first (its base-256 digits), so that values of any    *)
(* width (uint32, size_t) keep their exact range and wrap-around.  Storage *)
(* is a sequence of bytes; the byte at offset o is element o + 1.          *)
(***************************************************************************)
EXTENDS Integers, Sequences, FiniteSets, TLC

(***************************************************************************)
(* Bounds of the model.                                                    *)
(***************************************************************************)
\* the largest capacity the storage may grow to
MaxCapacity == 32
\* the number of Builder operations in one run
MaxOps == 4
\* the longest string given to AddString
MaxStrLen == 2
\* the longest vector given to AddArray
MaxArrayLen == 2

(***************************************************************************)
(* Program constants.                                                      *)
(***************************************************************************)
\* sizeof(RiftObjectHeader), alignof(RiftObjectHeader)
HeaderSize == 16
HeaderAlign == 8
\* sizeof(OffsetTableEntry), alignof(OffsetTableEntry)
EntrySize == 8
EntryAlign == 4
\* offsetof(RiftObjectHeader, ...)
OffMagic == 0
OffSchemaId == 4
OffTotalSize == 8
OffVersionFlags == 12
\* sizeof(size_t), sizeof(uint32)
SizeTBytes == 8
U32Bytes == 4
\* RIFT_MAGIC_NUMBER = 0x30534652, least significant byte first
RIFT_MAGIC_NUMBER == <<82, 70, 83, 48>>

(***************************************************************************)
(* Fixed-width arithmetic on byte sequences (least significant first).     *)
(***************************************************************************)
RECURSIVE ToBytes(_, _)
\* the w-byte value of the natural number n (n < 256^w)
ToBytes(n, w) == IF w = 0 THEN <<>> ELSE <<n % 256>> \o ToBytes(n \div 256, w - 1)

RECURSIVE ToNat(_)
\* the natural number of a byte sequence (only used on values below 2^31)
ToNat(v) == IF v = <<>> THEN 0 ELSE v[1] + 256 * ToNat(Tail(v))

RECURSIVE IsZero(_)
IsZero(v) == v = <<>> \/ (v[1] = 0 /\ IsZero(Tail(v)))

\* a value fits the model's integers when everything above 3 bytes is zero
Small(v) == Len(v) <= 3 \/ IsZero(SubSeq(v, 4, Len(v)))

\* integral conversion to a wider unsigned type
ZeroExtend(v, w) == v \o [i \in 1..(w - Len(v)) |-> 0]

\* integral conversion to a narrower unsigned type: static_cast<uint32>(size_t)
Truncate(v, w) == SubSeq(v, 1, w)

RECURSIVE AddW(_, _, _)
\* a + b + carry modulo 256^Len(a); Len(a) = Len(b)
AddW(a, b, c) ==
    IF a = <<>> THEN <<>>
    ELSE LET s == a[1] + b[1] + c
         IN  <<s % 256>> \o AddW(Tail(a), Tail(b), s \div 256)

RECURSIVE SubW(_, _, _)
\* a - b - borrow modulo 256^Len(a); Len(a) = Len(b)
SubW(a, b, br) ==
    IF a = <<>> THEN <<>>
    ELSE LET d == a[1] - b[1] - br
         IN  <<(d + 256) % 256>> \o SubW(Tail(a), Tail(b), IF d < 0 THEN 1 ELSE 0)

RECURSIVE MulW(_, _, _)
\* a * k + carry modulo 256^Len(a), for a small natural k
MulW(a, k, c) ==
    IF a = <<>> THEN <<>>
    ELSE LET p == a[1] * k + c
         IN  <<p % 256>> \o MulW(Tail(a), k, p \div 256)

RECURSIVE LeqW(_, _)
\* a <= b as unsigned numbers; Len(a) = Len(b)
LeqW(a, b) ==
    IF a = <<>> THEN TRUE
    ELSE LET n == Len(a)
         IN  IF a[n] # b[n] THEN a[n] < b[n]
             ELSE LeqW(SubSeq(a, 1, n - 1), SubSeq(b, 1, n - 1))

LessW(a, b) == LeqW(a, b) /\ a # b

\* the exact (unbounded) sum of two unsigned values exceeds a third:
\* decided by adding with one more byte than any operand has
SumExceeds(a, b, limit) ==
    LET w == 1 + (IF Len(a) > Len(b) THEN Len(a) ELSE Len(b))
        ww == IF w > Len(limit) THEN w ELSE Len(limit) + 1
    IN  ~LeqW(AddW(ZeroExtend(a, ww), ZeroExtend(b, ww), 0), ZeroExtend(limit, ww))

Reverse(v) == [i \in 1..Len(v) |-> v[Len(v) + 1 - i]]

Max(a, b) == IF a > b THEN a ELSE b


(***************************************************************************)
(* Type classification and layout of the built-in scalars.                 *)
(***************************************************************************)
\* the types with is_rift_pod_impl<T> : std::true_type
PodTypes ==
    {"int8", "uint8", "int16", "uint16", "int32", "uint32", "int64", "uint64",
     "float", "double", "bool"}

\* sizeof(T), from the static_asserts on the fixed-width aliases
SizeOf(T) ==
    CASE T \in {"int8", "uint8", "bool"} -> 1
      [] T \in {"int16", "uint16"} -> 2
      [] T \in {"int32", "uint32", "float"} -> 4
      [] T \in {"int64", "uint64", "double"} -> 8

\* alignof(T): the natural alignment of a scalar is its size
AlignOf(T) == SizeOf(T)

\* is_aligned(value, alignment)
is_aligned(value, alignment) == (value % alignment) = 0

\* align_up(offset, alignment) = (offset + alignment - 1) & ~(alignment - 1),
\* for a power of two alignment
align_up(offset, alignment) ==
    (offset + alignment - 1) - ((offset + alignment - 1) % alignment)

(***************************************************************************)
(* State.                                                                  *)
(***************************************************************************)
VARIABLES
    bigEndian,          \* the host is big-endian (RIFT_SERIALIZER_HOST_BIG_ENDIAN)
    debug,              \* the build defines RIFT_SERIALIZER_DEBUG
    proc,               \* "running", "aborted" (std::abort) or "faulted" (a trap)
    m_capacity,         \* m_buffer.capacity()
    m_data,             \* the bytes of the storage m_buffer.data() points to
    m_current_offset,   \* the write cursor
    alloc,              \* the identity of the current storage block
    ops,                \* the Builder operations performed so far
    ret,                \* the last Builder operation: its name, arguments and result
    starts,             \* the offsets BeginObject has returned
    entries,            \* the offsets ReserveOffsetTableEntry has returned, each with
                        \* the data_offset and data_size last patched into it
    obj,                \* the object most recently begun and how far its protocol got
    view,               \* the RiftBufferViewBase most recently constructed
    res,                \* the last accessor call: its name, arguments and outcome
    traits              \* the trait declarations of the program and whether it builds

vars ==
    <<bigEndian, debug, proc, m_capacity, m_data, m_current_offset, alloc, ops,
      ret, starts, entries, obj, view, res, traits>>

(***************************************************************************)
(* Endianness (Common.h).                                                  *)
(***************************************************************************)
\* The object representation of a host value: its bytes in address order,
\* as memcpy(&x) stores them and *ptr loads them.
ObjectRep(v) == IF bigEndian THEN Reverse(v) ELSE v

\* swap_bytes(uint16_t / uint32_t / uint64_t)
swap_bytes(v) == Reverse(v)

\* The conversions a build can contain.  swap_bytes has no 8-bit overload, so
\* on a big-endian host the integral template is ill-formed for int8 and
\* uint8 (the call is ambiguous) and no program instantiates it there.
ToLittleEndianCompiles(T) == ~(bigEndian /\ T \in {"int8", "uint8"})

\* to_little_endian(T value): the integral template, the float and double
\* overloads (a bit-cast around the uint32/uint64 template) and the bool
\* overload (static_cast<uint8>)
to_little_endian(T, value) ==
    IF T = "bool" THEN value
    ELSE IF bigEndian THEN swap_bytes(value) ELSE value

\* from_little_endian(x) for an argument x of static type T.  For a uint8
\* argument overload resolution selects the non-template
\* bool from_little_endian(uint8), which returns static_cast<bool>(value).
from_little_endian(T, value) ==
    IF T = "uint8" THEN (IF IsZero(value) THEN <<0>> ELSE <<1>>)
    ELSE IF bigEndian THEN swap_bytes(value) ELSE value

\* GetFixedField<T> compiles: for T = bool the call from_little_endian(bool)
\* is ambiguous; for int8 on a big-endian host swap_bytes(uint8) is
FromLittleEndianCompiles(T) == T # "bool" /\ ~(bigEndian /\ T = "int8")


(***************************************************************************)
(* RIFT_ASSERT (Common.h).  A process state p is "running" until an        *)
(* assertion aborts it; release builds evaluate the condition and go on.   *)
(***************************************************************************)
RIFT_ASSERT(p, condition) ==
    IF p = "running" /\ debug /\ ~condition THEN "aborted" ELSE p

(***************************************************************************)
(* RiftBufferBuilder (Builder.h).  The operators below take and return the *)
(* builder as a record b = [cap, data, cur, proc, alloc], so that a method *)
(* that calls other methods is the composition of their effects.  g is the *)
(* byte a freshly allocated block happens to hold (indeterminate storage). *)
(***************************************************************************)
\* the bytes indeterminate storage is drawn from
GarbageBytes == {0, 205}

Builder ==
    [cap |-> m_capacity, data |-> m_data, cur |-> m_current_offset,
     proc |-> proc, alloc |-> alloc]

\* std::vector<uint8>::reserve(n) on a vector whose size() is 0: a new
\* block of n bytes is allocated, the size() = 0 elements are moved into
\* it and the old block is released, so the new block holds none of the
\* bytes written through data().
VectorReserve(b, n, g) ==
    IF n > b.cap
    THEN [b EXCEPT !.cap = n, !.data = [i \in 1..n |-> g], !.alloc = @ + 1]
    ELSE b

\* EnsureCapacity that reserves exactly what the write needs instead of at
\* least twice the capacity
EnsureCapacity_Exact(b, bytes_needed, g) ==
    IF b.proc # "running" THEN b
    ELSE IF b.cap < b.cur + bytes_needed
         THEN VectorReserve(b, b.cur + bytes_needed, g)
         ELSE b

\* EnsureCapacity(bytes_needed)
EnsureCapacity(b, bytes_needed, g) ==
    IF b.proc # "running" THEN b
    ELSE IF b.cap < b.cur + bytes_needed
         THEN VectorReserve(b, Max(b.cap * 2, b.cur + bytes_needed), g)
         ELSE b

\* AdvanceOffset(bytes)
AdvanceOffset(b, bytes) ==
    IF b.proc # "running" THEN b
    ELSE LET p == RIFT_ASSERT(b.proc, b.cur + bytes <= b.cap)
         IN  IF p # "running" THEN [b EXCEPT !.proc = p]
             ELSE [b EXCEPT !.cur = @ + bytes]

\* std::memcpy(m_buffer.data() + at, bytes, Len(bytes))
MemCopy(b, at, bytes) ==
    [b EXCEPT !.data = [i \in 1..b.cap |->
        IF i > at /\ i <= at + Len(bytes) THEN bytes[i - at] ELSE b.data[i]]]

\* WriteRaw(data, size)
WriteRaw(b, bytes, g) ==
    IF b.proc # "running" THEN b
    ELSE LET b1 == EnsureCapacity(b, Len(bytes), g)
         IN  AdvanceOffset(MemCopy(b1, b1.cur, bytes), Len(bytes))

\* WriteValue(T value), and WriteValue(bool value) which writes a uint8
WriteValue(b, T, value, g) ==
    WriteRaw(b, ObjectRep(to_little_endian(T, value)), g)

\* PadToAlignment with the padding taken to be the cursor's remainder instead
\* of the distance to the next boundary
PadToAlignment_Remainder(b, alignment, g) ==
    IF b.proc # "running" THEN b
    ELSE LET padding == b.cur % alignment
         IN  IF padding > 0
             THEN LET b1 == EnsureCapacity(b, padding, g)
                  IN  AdvanceOffset(MemCopy(b1, b1.cur, [i \in 1..padding |-> 0]), padding)
             ELSE b

\* PadToAlignment(alignment)
PadToAlignment(b, alignment, g) ==
    IF b.proc # "running" THEN b
    ELSE LET padding == (alignment - (b.cur % alignment)) % alignment
         IN  IF padding > 0
             THEN LET b1 == EnsureCapacity(b, padding, g)
                  IN  AdvanceOffset(MemCopy(b1, b1.cur, [i \in 1..padding |-> 0]), padding)
             ELSE b

\* the object representation of the RiftObjectHeader temp_header
HeaderRep(schema_id_val, total_size_val, version_flags_val) ==
    ObjectRep(to_little_endian("uint32", RIFT_MAGIC_NUMBER))
    \o ObjectRep(to_little_endian("uint32", schema_id_val))
    \o ObjectRep(to_little_endian("uint32", total_size_val))
    \o ObjectRep(to_little_endian("uint32", version_flags_val))

\* BeginObject(schema_id_val, version_flags_val): the builder after the call
\* and the offset returned
BeginObject(b, schema_id_val, version_flags_val, g) ==
    LET b1 == PadToAlignment(b, HeaderAlign, g)
        object_start_offset == b1.cur
    IN  [b |-> WriteRaw(b1, HeaderRep(schema_id_val, ToBytes(0, U32Bytes),
                                      version_flags_val), g),
         ret |-> object_start_offset]

\* std::numeric_limits<uint32>::max(), as a size_t
UINT32_MAX == ZeroExtend([i \in 1..U32Bytes |-> 255], SizeTBytes)

\* EndObject that stores the whole size_t total_object_size at the total_size
\* field instead of its uint32 conversion
EndObject_WideStore(b, object_start_offset) ==
    LET total_object_size ==
            SubW(ToBytes(b.cur, SizeTBytes), ToBytes(object_start_offset, SizeTBytes), 0)
        p == RIFT_ASSERT(b.proc, LeqW(total_object_size, UINT32_MAX))
    IN  IF p # "running" THEN [b |-> [b EXCEPT !.proc = p], ret |-> total_object_size]
        ELSE [b |-> MemCopy(b, object_start_offset + OffTotalSize, ObjectRep(total_object_size)),
              ret |-> total_object_size]

\* EndObject(object_start_offset): the builder after the call and the size_t
\* returned
EndObject(b, object_start_offset) ==
    LET total_object_size ==
            SubW(ToBytes(b.cur, SizeTBytes), ToBytes(object_start_offset, SizeTBytes), 0)
        p == RIFT_ASSERT(b.proc, LeqW(total_object_size, UINT32_MAX))
        le_total_size == to_little_endian("uint32", Truncate(total_object_size, U32Bytes))
    IN  IF p # "running" THEN [b |-> [b EXCEPT !.proc = p], ret |-> total_object_size]
        ELSE [b |-> MemCopy(b, object_start_offset + OffTotalSize, ObjectRep(le_total_size)),
              ret |-> total_object_size]

\* ReserveOffsetTableEntry()
ReserveOffsetTableEntry(b, g) ==
    LET b1 == PadToAlignment(b, EntryAlign, g)
        entry_offset == b1.cur
    IN  [b |-> WriteRaw(b1, [i \in 1..EntrySize |-> 0], g), ret |-> entry_offset]

\* UpdateOffsetTableEntry(entry_offset, data_offset, data_size)
UpdateOffsetTableEntry(b, entry_offset, data_offset, data_size) ==
    LET p1 == RIFT_ASSERT(b.proc, entry_offset + EntrySize <= b.cur)
        p2 == RIFT_ASSERT(p1, is_aligned(entry_offset, EntryAlign))
    IN  IF p2 # "running" THEN [b EXCEPT !.proc = p2]
        ELSE MemCopy(b, entry_offset,
                     ObjectRep(to_little_endian("uint32", data_offset))
                     \o ObjectRep(to_little_endian("uint32", data_size)))

\* AddString(str): the characters, then the terminator
AddString(b, str, g) ==
    LET string_data_offset == Truncate(ToBytes(b.cur, SizeTBytes), U32Bytes)
    IN  [b |-> WriteRaw(WriteRaw(b, str, g), <<0>>, g), ret |-> string_data_offset]

RECURSIVE WriteElements(_, _, _, _)
\* for (const auto& element : arr) WriteValue(element);
WriteElements(b, T, arr, g) ==
    IF arr = <<>> THEN b
    ELSE WriteElements(WriteValue(b, T, Head(arr), g), T, Tail(arr), g)

\* AddArray<T_Element>(arr)
AddArray(b, T, arr, g) ==
    LET b1 == PadToAlignment(b, AlignOf(T), g)
        array_data_offset == Truncate(ToBytes(b1.cur, SizeTBytes), U32Bytes)
    IN  [b |-> WriteElements(b1, T, arr, g), ret |-> array_data_offset]

\* Reset(): clear() of a vector of size 0 keeps the block and its capacity
Reset(b) == [b EXCEPT !.cur = 0]


(***************************************************************************)
(* RiftBufferViewBase and the accessors (Accessor.h).  A pointer is the    *)
(* offset of its target from the start of the storage block, or NullPtr;   *)
(* a view remembers the block it was constructed over.  A read outside the *)
(* block, or of a block that has been released, finds indeterminate bytes. *)
(***************************************************************************)
NullPtr == -1

\* the bytes at [at, at + n) of block blk, in address order
ReadBytes(blk, at, n, g) ==
    [i \in 1..n |->
        IF blk = alloc /\ at >= 0 /\ at + i <= m_capacity THEN m_data[at + i] ELSE g]

\* *ptr for a T* ptr: the host value whose object representation the bytes are
Deref(blk, at, n, g) == ObjectRep(ReadBytes(blk, at, n, g))

\* from_little_endian(m_header->field) for a uint32 header field
HeaderField(v, off, g) ==
    from_little_endian("uint32", Deref(v.alloc, v.ptr + off, U32Bytes, g))

\* GetSchemaId(), GetTotalSize(), GetVersionFlags()
GetSchemaId(v, g) == HeaderField(v, OffSchemaId, g)
GetTotalSize(v, g) == HeaderField(v, OffTotalSize, g)
GetVersionFlags(v, g) == HeaderField(v, OffVersionFlags, g)

\* explicit RiftBufferViewBase(const void* buffer_start): the process state
\* after the constructor and the conditions that evaluated to false.  trap
\* says whether the host traps on a misaligned load.
RiftBufferViewBase(buffer_start, g, trap) ==
    LET v == [ptr |-> buffer_start, alloc |-> alloc]
        p1 == RIFT_ASSERT("running", buffer_start # NullPtr)
        magic == HeaderField(v, OffMagic, g)
        p2 == RIFT_ASSERT(p1, magic = RIFT_MAGIC_NUMBER)
        actual_total_size == HeaderField(v, OffTotalSize, g)
        size_ok == LeqW(ToBytes(HeaderSize, U32Bytes), actual_total_size)
        p3 == RIFT_ASSERT(p2, size_ok)
    IN  IF p1 # "running" THEN [proc |-> p1, failed |-> {"null"}]
        ELSE IF buffer_start = NullPtr THEN [proc |-> "faulted", failed |-> {"null"}]
        ELSE IF ~is_aligned(buffer_start, HeaderAlign) /\ trap
             THEN [proc |-> "faulted", failed |-> {}]
        ELSE [proc |-> p3,
              failed |-> (IF magic = RIFT_MAGIC_NUMBER THEN {} ELSE {"magic"})
                         \cup (IF size_ok THEN {} ELSE {"total_size"})]

\* GetPtrAtOffset(uint32 offset, size_t size_needed): offset + size_needed is
\* a size_t sum, modulo 256^SizeTBytes
GetPtrAtOffset(v, offset, size_needed, g) ==
    LET sum == AddW(ZeroExtend(offset, SizeTBytes), size_needed, 0)
        in_bounds == LeqW(sum, ZeroExtend(GetTotalSize(v, g), SizeTBytes))
    IN  [proc |-> RIFT_ASSERT("running", in_bounds),
         failed |-> IF in_bounds THEN {} ELSE {"bounds"},
         ptr |-> AddW(ToBytes(v.ptr, SizeTBytes), ZeroExtend(offset, SizeTBytes), 0)]

\* GetFixedField<T>(buffer_start, offset) for T other than bool.  blk is
\* the block buffer_start points into.
GetFixedField(T, blk, buffer_start, offset, g, trap) ==
    LET ptr == buffer_start + offset
        aligned == is_aligned(ptr, AlignOf(T))
        p == RIFT_ASSERT("running", aligned)
    IN  [proc |-> IF p = "running" /\ ~aligned /\ trap THEN "faulted" ELSE p,
         failed |-> IF aligned THEN {} ELSE {"alignment"},
         value |-> from_little_endian(T, Deref(blk, ptr, SizeOf(T), g))]

\* bool GetFixedField(buffer_start, offset): from_little_endian(*ptr) != 0
\* on a uint8
GetFixedFieldBool(blk, buffer_start, offset, g) ==
    LET ptr == buffer_start + offset
    IN  [proc |-> RIFT_ASSERT("running", is_aligned(ptr, AlignOf("uint8"))),
         failed |-> {},
         value |-> IF IsZero(from_little_endian("uint8", Deref(blk, ptr, 1, g)))
                   THEN <<0>> ELSE <<1>>]

\* RiftArrayView<T_Element>(array_data_ptr, element_count)::operator[](index):
\* uint32 element_offset = index * sizeof(T_Element) keeps the low 32 bits of
\* the size_t product
ArrayElementOffset(T, index) ==
    Truncate(MulW(ZeroExtend(index, SizeTBytes), SizeOf(T), 0), U32Bytes)

ArrayViewAt(T, blk, array_data_ptr, element_count, index, g, trap) ==
    LET in_range == LessW(index, element_count)
        p1 == RIFT_ASSERT("running", in_range)
        element_offset == ToNat(ArrayElementOffset(T, index))
        element_ptr == array_data_ptr + element_offset
        aligned == is_aligned(element_ptr, AlignOf(T))
        p2 == RIFT_ASSERT(p1, aligned)
        r == GetFixedField(T, blk, array_data_ptr, element_offset, g, trap)
    IN  [proc |-> IF p2 # "running" THEN p2 ELSE r.proc,
         failed |-> (IF in_range THEN {} ELSE {"index"}) \cup r.failed,
         value |-> r.value,
         at |-> element_ptr]

\* RiftStringView(data_ptr, length): length(), to_string() = std::string(m_data,
\* m_length) and empty(), for data_ptr in block blk
RiftStringView(blk, data_ptr, length, g) ==
    [proc |-> RIFT_ASSERT("running", data_ptr # NullPtr),
     failed |-> IF data_ptr # NullPtr THEN {} ELSE {"null"},
     length |-> length,
     to_string |-> ReadBytes(blk, data_ptr, ToNat(length), g),
     empty |-> IsZero(length)]

\* GetOffsetTableEntry(object_base_ptr, offset_table_offset, entry_index,
\* expected_num_entries): the entry is located, not read
GetOffsetTableEntry(object_base_ptr, offset_table_offset, entry_index, expected_num_entries) ==
    LET p1 == RIFT_ASSERT("running", object_base_ptr # NullPtr)
        p2 == RIFT_ASSERT(p1, offset_table_offset > 0)
        in_range == entry_index < expected_num_entries
        p3 == RIFT_ASSERT(p2, in_range)
        table_start == object_base_ptr + offset_table_offset
        aligned == is_aligned(table_start, EntryAlign)
        p4 == RIFT_ASSERT(p3, aligned)
        p5 == RIFT_ASSERT(p4, entry_index * EntrySize < expected_num_entries * EntrySize)
    IN  [proc |-> p5,
         failed |-> (IF offset_table_offset > 0 THEN {} ELSE {"table_offset"})
                    \cup (IF in_range THEN {} ELSE {"index"})
                    \cup (IF aligned THEN {} ELSE {"alignment"}),
         ptr |-> table_start + entry_index * EntrySize]


\* from_little_endian(entry->offset) and from_little_endian(entry->size) for
\* the OffsetTableEntry at entry_ptr of block blk
EntryFields(blk, entry_ptr, g) ==
    [offset |-> from_little_endian("uint32", Deref(blk, entry_ptr, U32Bytes, g)),
     size |-> from_little_endian("uint32", Deref(blk, entry_ptr + U32Bytes, U32Bytes, g))]


(***************************************************************************)
(* Inputs of the operations.                                               *)
(***************************************************************************)
\* a value of each type whose bytes all differ (byte i holds 4 + i), so that
\* every byte order of it is a different value; for bool, true
SampleValue(T) == IF T = "bool" THEN <<1>> ELSE [i \in 1..SizeOf(T) |-> 4 + i]
SampleValues(T) == {SampleValue(T)}

\* the values of T the conversions are tried on: zero, the sample, all bits
\* set, and only the top bit set (for bool: false and true)
Values(T) ==
    IF T = "bool" THEN {<<0>>, <<1>>}
    ELSE {[i \in 1..SizeOf(T) |-> 0], SampleValue(T), [i \in 1..SizeOf(T) |-> 255],
          [i \in 1..SizeOf(T) |-> IF i = SizeOf(T) THEN 128 ELSE 0]}

\* schema_id 7 and version_flags 1
SchemaIds == {ToBytes(7, U32Bytes)}
VersionFlags == {ToBytes(1, U32Bytes)}

\* the strings "", "h", "hi", ...
StringOf(n) == [i \in 1..n |-> 103 + i]
Strings == {StringOf(n) : n \in 0..MaxStrLen}

\* the vectors {}, {v}, {v, v + 1}, ... of elements of type T, v the sample
ArrayOf(T, n) == [i \in 1..n |-> [SampleValue(T) EXCEPT ![1] = i]]
Arrays(T) == {ArrayOf(T, n) : n \in 0..MaxArrayLen}

\* the types the Builder run writes, and the alignments it pads to
BuilderTypes == {"uint8", "uint32"}
ArrayTypes == {"uint32"}
Alignments == {4, 8}

(***************************************************************************)
(* Records of the last calls.                                              *)
(***************************************************************************)
NoRet ==
    [op |-> "none", type |-> "none", at |-> 0, arg |-> <<>>, result |-> <<>>,
     after |-> "none", afterArg |-> <<>>, grew |-> FALSE]

NoObj ==
    [state |-> "none", start |-> 0, schema_id |-> <<>>, version_flags |-> <<>>,
     size |-> <<>>, grew |-> FALSE]

\* no entry reserved yet; and what a reserved entry holds before any patch
NoEntries == [o \in {} |-> <<>>]
BlankEntry == [offset |-> ToBytes(0, U32Bytes), size |-> ToBytes(0, U32Bytes)]

\* the traits as Traits.h leaves them: no user declaration, and
\* RiftSerializerConceptCheck instantiated for int32, std::string and
\* std::vector<float>
HeaderChecked == {"int32", "std::string", "std::vector<float>"}
NoTraits ==
    [pod |-> {}, variable |-> {}, checked |-> HeaderChecked, build |-> "ok",
     written |-> {}]

NoView == [ptr |-> NullPtr, alloc |-> 0, valid |-> FALSE]

NoRes ==
    [op |-> "none", outcome |-> "none", type |-> "none", base |-> 0, off |-> <<>>,
     need |-> <<>>, value |-> <<>>, failed |-> {}, lo |-> 0, hi |-> 0]

\* how a call ended for its caller
Outcome(p) == IF p = "running" THEN "returned" ELSE p

\* the record of an accessor call: [lo, hi) is the byte range, relative to
\* base, that the call addresses
Result(name, p, T, base, off, need, value, failed, lo, hi) ==
    [op |-> name, outcome |-> Outcome(p), type |-> T, base |-> base, off |-> off,
     need |-> need, value |-> value, failed |-> failed, lo |-> lo, hi |-> hi]

(***************************************************************************)
(* Builder actions.                                                        *)
(***************************************************************************)
Commit(b) ==
    /\ m_capacity' = b.cap
    /\ m_data' = b.data
    /\ m_current_offset' = b.cur
    /\ proc' = b.proc
    /\ alloc' = b.alloc

CanStep == proc = "running" /\ ops < MaxOps

\* what a call other than BeginObject, EndObject and Reset does to the
\* record of the object under construction
ObjAfterWrite(b) ==
    IF obj.state = "open" THEN [obj EXCEPT !.grew = @ \/ b.alloc # alloc]
    ELSE IF obj.state = "ended" THEN [obj EXCEPT !.state = "stale"]
    ELSE obj

\* the record of a Builder call: at is the cursor before it, after and
\* afterArg the call that preceded it, grew whether it moved the storage
Called(name, T, arg, result, b) ==
    [op |-> name, type |-> T, at |-> m_current_offset, arg |-> arg,
     result |-> result, after |-> ret.op, afterArg |-> ret.arg,
     grew |-> b.alloc # alloc]

DoBeginObject ==
    /\ CanStep
    /\ \E schema_id_val \in SchemaIds, version_flags_val \in VersionFlags, g \in GarbageBytes :
         LET r == BeginObject(Builder, schema_id_val, version_flags_val, g)
         IN  /\ r.b.cap <= MaxCapacity
             /\ Commit(r.b)
             /\ ret' = Called("BeginObject", "none", schema_id_val,
                              ToBytes(r.ret, SizeTBytes), r.b)
             /\ starts' = starts \cup {r.ret}
             /\ obj' = [state |-> "open", start |-> r.ret, schema_id |-> schema_id_val,
                        version_flags |-> version_flags_val, size |-> <<>>,
                        grew |-> FALSE]
    /\ ops' = ops + 1
    /\ res' = NoRes
    /\ UNCHANGED <<bigEndian, debug, traits, entries, view>>

DoEndObject ==
    /\ CanStep
    /\ \E object_start_offset \in starts :
         LET r == EndObject(Builder, object_start_offset)
         IN  /\ Commit(r.b)
             /\ ret' = Called("EndObject", "none", ToBytes(object_start_offset, SizeTBytes),
                              r.ret, r.b)
             /\ obj' = IF obj.state = "open" /\ obj.start = object_start_offset
                          /\ r.b.proc = "running"
                       THEN [obj EXCEPT !.state = "ended", !.size = r.ret]
                       ELSE IF obj.state = "none" THEN obj
                       ELSE [obj EXCEPT !.state = "stale"]
    /\ ops' = ops + 1
    /\ res' = NoRes
    /\ UNCHANGED <<bigEndian, debug, traits, starts, entries, view>>

DoWriteValue(Types, Vals, limit) ==
    /\ proc = "running" /\ ops < limit
    /\ \E T \in Types, g \in GarbageBytes :
         /\ ToLittleEndianCompiles(T)
         /\ \E value \in Vals[T] :
              LET b == WriteValue(Builder, T, value, g)
              IN  /\ b.cap <= MaxCapacity
                  /\ Commit(b)
                  /\ ret' = Called("WriteValue", T, value, <<>>, b)
                  /\ obj' = ObjAfterWrite(b)
    /\ ops' = ops + 1
    /\ res' = NoRes
    /\ UNCHANGED <<bigEndian, debug, traits, starts, entries, view>>

DoPadToAlignment ==
    /\ CanStep
    /\ \E alignment \in Alignments, g \in GarbageBytes :
         LET b == PadToAlignment(Builder, alignment, g)
         IN  /\ b.cap <= MaxCapacity
             /\ Commit(b)
             /\ ret' = Called("PadToAlignment", "none", ToBytes(alignment, SizeTBytes),
                              <<>>, b)
             /\ obj' = ObjAfterWrite(b)
    /\ ops' = ops + 1
    /\ res' = NoRes
    /\ UNCHANGED <<bigEndian, debug, traits, starts, entries, view>>

DoAddString ==
    /\ CanStep
    /\ \E str \in Strings, g \in GarbageBytes :
         LET r == AddString(Builder, str, g)
         IN  /\ r.b.cap <= MaxCapacity
             /\ Commit(r.b)
             /\ ret' = Called("AddString", "none", str, r.ret, r.b)
             /\ obj' = ObjAfterWrite(r.b)
    /\ ops' = ops + 1
    /\ res' = NoRes
    /\ UNCHANGED <<bigEndian, debug, traits, starts, entries, view>>

DoAddArray ==
    /\ CanStep
    /\ \E T \in ArrayTypes, g \in GarbageBytes :
         \E arr \in Arrays(T) :
              LET r == AddArray(Builder, T, arr, g)
              IN  /\ r.b.cap <= MaxCapacity
                  /\ Commit(r.b)
                  /\ ret' = Called("AddArray", T, arr, r.ret, r.b)
                  /\ obj' = ObjAfterWrite(r.b)
    /\ ops' = ops + 1
    /\ res' = NoRes
    /\ UNCHANGED <<bigEndian, debug, traits, starts, entries, view>>

DoReserveOffsetTableEntry ==
    /\ CanStep
    /\ \E g \in GarbageBytes :
         LET r == ReserveOffsetTableEntry(Builder, g)
         IN  /\ r.b.cap <= MaxCapacity
             /\ Commit(r.b)
             /\ ret' = Called("ReserveOffsetTableEntry", "none", <<>>,
                              ToBytes(r.ret, SizeTBytes), r.b)
             /\ entries' = [o \in DOMAIN entries \cup {r.ret} |->
                                IF o = r.ret THEN BlankEntry ELSE entries[o]]
             /\ obj' = ObjAfterWrite(r.b)
    /\ ops' = ops + 1
    /\ res' = NoRes
    /\ UNCHANGED <<bigEndian, debug, traits, starts, view>>

\* the entry offsets a caller passes: those it reserved, and the start of an
\* object (whose first 8 bytes then take the entry)
DoUpdateOffsetTableEntry ==
    /\ CanStep
    /\ \E entry_offset \in DOMAIN entries \cup starts :
         LET data_offset == ToBytes(m_current_offset, U32Bytes)
             data_size == ToBytes(2, U32Bytes)
             b == UpdateOffsetTableEntry(Builder, entry_offset, data_offset, data_size)
         IN  /\ Commit(b)
             /\ ret' = Called("UpdateOffsetTableEntry", "none",
                              ToBytes(entry_offset, SizeTBytes), <<>>, b)
             /\ obj' = ObjAfterWrite(b)
             /\ entries' = IF entry_offset \in DOMAIN entries /\ b.proc = "running"
                            THEN [entries EXCEPT ![entry_offset] =
                                     [offset |-> data_offset, size |-> data_size]]
                            ELSE entries
    /\ ops' = ops + 1
    /\ res' = NoRes
    /\ UNCHANGED <<bigEndian, debug, traits, starts, view>>

DoReset ==
    /\ CanStep
    /\ Commit(Reset(Builder))
    /\ ret' = Called("Reset", "none", <<>>, <<>>, Builder)
    /\ obj' = IF obj.state = "none" THEN obj ELSE [obj EXCEPT !.state = "stale"]
    /\ ops' = ops + 1
    /\ res' = NoRes
    /\ UNCHANGED <<bigEndian, debug, traits, starts, entries, view>>


(***************************************************************************)
(* View and accessor actions.  They change no Builder state.               *)
(***************************************************************************)
\* an accessor that writes into the buffer it reads: the first byte is set
ViewFrame_Scribble ==
    /\ m_data' = [i \in DOMAIN m_data |-> IF i = 1 THEN 255 ELSE m_data[i]]
    /\ UNCHANGED <<bigEndian, debug, traits, m_capacity, m_current_offset, alloc,
                   ret, starts, entries, obj>>

ViewFrame ==
    UNCHANGED <<bigEndian, debug, traits, m_capacity, m_data, m_current_offset, alloc,
                ret, starts, entries, obj>>

\* the indeterminate bytes a read of [at, at + n) of block blk can find: the
\* choice only matters when the range leaves the live block
ReadGarbage(blk, at, n) ==
    IF blk = alloc /\ at >= 0 /\ at + n <= m_capacity THEN {0} ELSE GarbageBytes

\* whether the host traps on a load at address at of a type aligned to a: the
\* choice only matters for a misaligned address
Traps(at, a) == IF is_aligned(at, a) THEN {FALSE} ELSE BOOLEAN

\* the pointers a caller constructs a view over: where an object starts
\* in the storage, or the null GetBufferPtr() of storage never allocated
ViewPtrs == starts \cup (IF m_capacity = 0 THEN {NullPtr} ELSE {})

DoConstructView ==
    /\ CanStep
    /\ ops' = ops + 1
    /\ \E buffer_start \in ViewPtrs :
       \E g \in ReadGarbage(alloc, buffer_start, HeaderSize),
          trap \in Traps(buffer_start, HeaderAlign) :
         LET r == RiftBufferViewBase(buffer_start, g, trap)
         IN  /\ proc' = r.proc
             /\ view' = IF r.proc = "running"
                        THEN [ptr |-> buffer_start, alloc |-> alloc,
                              valid |-> r.failed = {}]
                        ELSE NoView
             /\ res' = Result("RiftBufferViewBase", r.proc, "none", buffer_start, <<>>,
                              <<>>, <<>>, r.failed, 0, HeaderSize)
    /\ ViewFrame

HasView == proc = "running" /\ view.ptr # NullPtr

DoGetSchemaId ==
    /\ HasView
    /\ \E g \in ReadGarbage(view.alloc, view.ptr, HeaderSize) :
         res' = Result("GetSchemaId", "running", "uint32", view.ptr, <<>>, <<>>,
                       GetSchemaId(view, g), {}, OffSchemaId, OffSchemaId + U32Bytes)
    /\ UNCHANGED <<proc, view, ops>>
    /\ ViewFrame

DoGetTotalSize ==
    /\ HasView
    /\ \E g \in ReadGarbage(view.alloc, view.ptr, HeaderSize) :
         res' = Result("GetTotalSize", "running", "uint32", view.ptr, <<>>, <<>>,
                       GetTotalSize(view, g), {}, OffTotalSize, OffTotalSize + U32Bytes)
    /\ UNCHANGED <<proc, view, ops>>
    /\ ViewFrame

DoGetVersionFlags ==
    /\ HasView
    /\ \E g \in ReadGarbage(view.alloc, view.ptr, HeaderSize) :
         res' = Result("GetVersionFlags", "running", "uint32", view.ptr, <<>>, <<>>,
                       GetVersionFlags(view, g), {}, OffVersionFlags,
                       OffVersionFlags + U32Bytes)
    /\ UNCHANGED <<proc, view, ops>>
    /\ ViewFrame

\* the uint32 offsets and size_t sizes GetPtrAtOffset is called with: inside
\* the object, at its end, past it, and near the top of their ranges
PtrOffsets == {ToBytes(0, U32Bytes), ToBytes(HeaderSize, U32Bytes),
               ToBytes(HeaderSize + 8, U32Bytes), [i \in 1..U32Bytes |-> 255]}
SizesNeeded == {ToBytes(1, SizeTBytes), ToBytes(8, SizeTBytes),
                [i \in 1..SizeTBytes |-> 255],
                [i \in 1..SizeTBytes |-> IF i = 1 THEN 240 ELSE 255]}

DoGetPtrAtOffset ==
    /\ HasView
    /\ \E offset \in PtrOffsets, size_needed \in SizesNeeded,
          g \in ReadGarbage(view.alloc, view.ptr, HeaderSize) :
         LET r == GetPtrAtOffset(view, offset, size_needed, g)
         IN  /\ proc' = r.proc
             /\ res' = Result("GetPtrAtOffset", r.proc, "none", view.ptr, offset,
                              size_needed, r.ptr, r.failed, 0, 0)
    /\ UNCHANGED <<view, ops>>
    /\ ViewFrame

\* the base pointers accessors are given: that of the view, or GetBufferPtr()
ViewBases ==
    IF view.ptr # NullPtr THEN {[ptr |-> view.ptr, alloc |-> view.alloc]} ELSE {}
BufferBases == {[ptr |-> 0, alloc |-> alloc]}

\* GetFixedField<T>(buffer_start, offset)
DoGetFixedField(Types, Bases, Offsets) ==
    /\ proc = "running"
    /\ \E T \in Types, base \in Bases, offset \in Offsets :
       \E g \in ReadGarbage(base.alloc, base.ptr + offset, SizeOf(T)),
          trap \in Traps(base.ptr + offset, AlignOf(T)) :
         /\ FromLittleEndianCompiles(T)
         /\ LET r == GetFixedField(T, base.alloc, base.ptr, offset, g, trap)
            IN  /\ proc' = r.proc
                /\ res' = Result("GetFixedField", r.proc, T, base.ptr,
                                 ToBytes(offset, U32Bytes), <<>>, r.value, r.failed,
                                 offset, offset + SizeOf(T))
    /\ UNCHANGED <<view, ops>>
    /\ ViewFrame

\* bool GetFixedField(buffer_start, offset)
DoGetFixedFieldBool(Bases, Offsets) ==
    /\ proc = "running"
    /\ \E base \in Bases, offset \in Offsets :
       \E g \in ReadGarbage(base.alloc, base.ptr + offset, 1) :
         LET r == GetFixedFieldBool(base.alloc, base.ptr, offset, g)
         IN  /\ proc' = r.proc
             /\ res' = Result("GetFixedField", r.proc, "bool", base.ptr,
                              ToBytes(offset, U32Bytes), <<>>, r.value, r.failed,
                              offset, offset + 1)
    /\ UNCHANGED <<view, ops>>
    /\ ViewFrame

\* RiftArrayView<T>(base + array_offset, element_count)[index], for uint32
\* element_count and index
DoArrayViewAt(Types, Bases, Offsets, Counts, Indexes) ==
    /\ proc = "running"
    /\ \E T \in Types, base \in Bases, array_offset \in Offsets,
          element_count \in Counts, index \in Indexes :
       LET at == base.ptr + array_offset + ToNat(ArrayElementOffset(T, index))
       IN  \E g \in ReadGarbage(base.alloc, at, SizeOf(T)), trap \in Traps(at, AlignOf(T)) :
             /\ FromLittleEndianCompiles(T)
             /\ LET r == ArrayViewAt(T, base.alloc, base.ptr + array_offset,
                                     element_count, index, g, trap)
                IN  /\ proc' = r.proc
                    /\ res' = Result("RiftArrayView", r.proc, T, base.ptr,
                                     ToBytes(array_offset, U32Bytes), index, r.value,
                                     r.failed, r.at - base.ptr,
                                     r.at - base.ptr + SizeOf(T))
    /\ UNCHANGED <<view, ops>>
    /\ ViewFrame

\* RiftStringView(base + string_offset, length): length(), to_string(), empty()
DoStringView(Bases, Offsets, Lengths) ==
    /\ proc = "running"
    /\ \E base \in Bases, string_offset \in Offsets, length \in Lengths :
       \E g \in ReadGarbage(base.alloc, base.ptr + string_offset, length) :
         LET r == RiftStringView(base.alloc, base.ptr + string_offset,
                                 ToBytes(length, U32Bytes), g)
         IN  /\ proc' = r.proc
             /\ res' = Result("RiftStringView", r.proc,
                              IF r.empty THEN "empty" ELSE "nonempty", base.ptr,
                              ToBytes(string_offset, U32Bytes), r.length, r.to_string,
                              r.failed, string_offset, string_offset + length)
    /\ UNCHANGED <<view, ops>>
    /\ ViewFrame

\* GetOffsetTableEntry(base, offset_table_offset, entry_index,
\* expected_num_entries), then the two fields of the entry returned
DoResolveEntry(Bases, Offsets, Counts, Indexes) ==
    /\ proc = "running"
    /\ \E base \in Bases, offset_table_offset \in Offsets,
          expected_num_entries \in Counts, entry_index \in Indexes :
       LET r == GetOffsetTableEntry(base.ptr, offset_table_offset, entry_index,
                                    expected_num_entries)
       IN  \E g \in ReadGarbage(base.alloc, r.ptr, EntrySize) :
             LET e == EntryFields(base.alloc, r.ptr, g)
             IN  /\ proc' = r.proc
                 /\ res' = Result("OffsetTableEntry", r.proc, "none", base.ptr,
                                  ToBytes(offset_table_offset, U32Bytes),
                                  ToBytes(entry_index, U32Bytes), e.offset \o e.size,
                                  r.failed, r.ptr - base.ptr,
                                  r.ptr - base.ptr + EntrySize)
    /\ UNCHANGED <<view, ops>>
    /\ ViewFrame

DoGetOffsetTableEntry(Offsets, Counts, Indexes) ==
    /\ HasView
    /\ \E offset_table_offset \in Offsets, expected_num_entries \in Counts,
          entry_index \in Indexes :
         LET r == GetOffsetTableEntry(view.ptr, offset_table_offset, entry_index,
                                      expected_num_entries)
         IN  /\ proc' = r.proc
             /\ res' = Result("GetOffsetTableEntry", r.proc, "none", view.ptr,
                              ToBytes(offset_table_offset, U32Bytes),
                              ToBytes(entry_index, U32Bytes),
                              ToBytes(r.ptr, SizeTBytes), r.failed,
                              r.ptr - view.ptr, r.ptr - view.ptr + EntrySize)
    /\ UNCHANGED <<view, ops>>
    /\ ViewFrame

(***************************************************************************)
(* The Builder run: a RiftBufferBuilder(initial_capacity) and the views    *)
(* constructed over its storage.                                           *)
(***************************************************************************)
\* the initial_capacity arguments
InitialCapacities == {16, 32}

Init ==
    /\ bigEndian \in BOOLEAN
    /\ debug \in BOOLEAN
    /\ proc = "running"
    /\ m_capacity \in InitialCapacities
    /\ \E g \in GarbageBytes : m_data = [i \in 1..m_capacity |-> g]
    /\ m_current_offset = 0
    /\ alloc = 0
    /\ ops = 0
    /\ ret = NoRet
    /\ starts = {}
    /\ entries = NoEntries
    /\ obj = NoObj
    /\ view = NoView
    /\ res = NoRes
    /\ traits = NoTraits

Next ==
    \/ DoBeginObject
    \/ DoEndObject
    \/ DoWriteValue(BuilderTypes, [T \in BuilderTypes |-> SampleValues(T)], MaxOps)
    \/ DoPadToAlignment
    \/ DoAddString
    \/ DoAddArray
    \/ DoReserveOffsetTableEntry
    \/ DoUpdateOffsetTableEntry
    \/ DoReset
    \/ DoConstructView
    \/ DoGetSchemaId
    \/ DoGetTotalSize
    \/ DoGetVersionFlags

Spec == Init /\ [][Next]_vars


(***************************************************************************)
(* The codec run: values of every scalar type written by WriteValue and    *)
(* read back by GetFixedField from GetBufferPtr().                         *)
(***************************************************************************)
\* the number of WriteValue calls in a codec run
CodecOps == 2

CodecNext ==
    \/ DoWriteValue(PodTypes, [T \in PodTypes |-> Values(T)], CodecOps)
    \/ DoGetFixedField({ret.type} \cap PodTypes, BufferBases, {ret.at})
    \/ DoGetFixedFieldBool(BufferBases, IF ret.type = "bool" THEN {ret.at} ELSE {})

CodecSpec == Init /\ [][CodecNext]_vars

(***************************************************************************)
(* The field run: strings, arrays and offset-table entries appended by the *)
(* Builder and read back from GetBufferPtr() through the string view, the  *)
(* array view and GetOffsetTableEntry.                                     *)
(***************************************************************************)
\* the offset table the caller laid out: its first entry, the number of
\* entries, and whether the entries are consecutive
TableOffset == CHOOSE t \in DOMAIN entries : \A o \in DOMAIN entries : t <= o
TableCount == Cardinality(DOMAIN entries)
IsTable ==
    /\ entries # NoEntries
    /\ DOMAIN entries = {TableOffset + EntrySize * k : k \in 0..(TableCount - 1)}

\* the string, the array or the table that the caller reads back; the table
\* is located from the start of an object that begins before it
StringOffsets == IF ret.op = "AddString" THEN {ToNat(ret.result)} ELSE {}
ArrayOffsets == IF ret.op = "AddArray" THEN {ToNat(ret.result)} ELSE {}
TableBases == IF IsTable THEN {s \in starts : s < TableOffset} ELSE {}

FieldNext ==
    \/ DoBeginObject
    \/ DoWriteValue(BuilderTypes, [T \in BuilderTypes |-> SampleValues(T)], MaxOps)
    \/ DoAddString
    \/ DoAddArray
    \/ DoReserveOffsetTableEntry
    \/ DoUpdateOffsetTableEntry
    \/ DoStringView(BufferBases, StringOffsets, {Len(ret.arg)})
    \/ DoArrayViewAt({ret.type} \cap ArrayTypes, BufferBases, ArrayOffsets,
                     {ToBytes(Len(ret.arg), U32Bytes)},
                     {ToBytes(i, U32Bytes) : i \in 0..(Len(ret.arg) - 1)})
    \/ \E s \in TableBases :
         DoResolveEntry({[ptr |-> s, alloc |-> alloc]}, {TableOffset - s},
                        {TableCount}, 0..(TableCount - 1))

FieldSpec == Init /\ [][FieldNext]_vars

(***************************************************************************)
(* The view run: views and accessors over a byte range the application     *)
(* owns (read from a file or the network), whatever it holds.              *)
(***************************************************************************)
\* the wire form of a uint32: least significant byte first
Wire32(n) == ToBytes(n, U32Bytes)

\* An object of 32 bytes as the Builder lays it out: the header, a uint32
\* field at 16, an offset-table entry at 20 (offset 28, size 2), a uint16
\* array of 2 elements at 28; after it, 8 bytes of whatever follows the
\* object in the application's storage.  magic and total_size are as given
\* (the range may be corrupt), and the object starts at offset lead.
ExternalBuffer(lead, magic, total_size) ==
    [i \in 1..lead |-> 0]
    \o magic \o Wire32(7) \o Wire32(total_size) \o Wire32(1)
    \o SampleValue("uint32")
    \o Wire32(28) \o Wire32(2)
    \o <<1, 0, 2, 0>>
    \o [i \in 1..8 |-> 238]

ExternalLeads == {0, 4}
ExternalMagics == {RIFT_MAGIC_NUMBER, Wire32(0)}
ExternalTotalSizes == {8, 16, 24, 32}

\* the element counts and indexes of the array reads: the 2 elements the
\* buffer holds and the largest count, indexes inside and outside the count
\* and an index whose byte offset needs more than 32 bits
ExternalCounts == {ToBytes(2, U32Bytes), [i \in 1..U32Bytes |-> 255]}
ExternalIndexes ==
    {ToBytes(i, U32Bytes) : i \in 0..2}
    \cup {[i \in 1..U32Bytes |-> IF i = U32Bytes THEN 128 ELSE 0]}

ViewInit ==
    /\ bigEndian \in BOOLEAN
    /\ debug \in BOOLEAN
    /\ proc = "running"
    /\ \/ \E lead \in ExternalLeads, magic \in ExternalMagics,
             total_size \in ExternalTotalSizes :
            /\ m_data = ExternalBuffer(lead, magic, total_size)
            /\ starts = {lead}
       \/ /\ m_data = <<>>
          /\ starts = {}
    /\ m_capacity = Len(m_data)
    /\ m_current_offset = Len(m_data)
    /\ alloc = 0
    /\ ops = 0
    /\ ret = NoRet
    /\ entries = NoEntries
    /\ obj = NoObj
    /\ view = NoView
    /\ res = NoRes
    /\ traits = NoTraits

ViewNext ==
    \/ DoConstructView
    \/ DoGetSchemaId
    \/ DoGetTotalSize
    \/ DoGetVersionFlags
    \/ DoGetPtrAtOffset
    \/ DoGetFixedField({"uint8", "uint16", "uint32"}, ViewBases, {16, 18, 22, 30, 32})
    \/ DoGetFixedFieldBool(ViewBases, {16, 32})
    \/ DoArrayViewAt({"uint16"}, ViewBases, {28}, ExternalCounts, ExternalIndexes)
    \/ DoGetOffsetTableEntry({20}, {1, 2}, {0, 1, 2})

ViewSpec == ViewInit /\ [][ViewNext]_vars


(***************************************************************************)
(* Type classification (Traits.h).  A program is the headers followed by   *)
(* the user's trait declarations; it fails to build when a declaration or  *)
(* a static_assert is ill-formed, and a program that builds can write.     *)
(***************************************************************************)
\* the types classified: built-in scalars, the two built-in variable-size
\* types, the scalar char, a struct of three floats and a struct holding a
\* std::string
TraitTypes == {"int32", "uint32", "std::string", "std::vector<float>", "char",
               "Vec3", "Name"}

\* std::is_standard_layout and std::is_trivially_copyable both hold
TriviallyCopyable(T) == T \notin {"std::string", "std::vector<float>", "Name"}

\* is_rift_pod<T>, is_rift_fixed_size<T>, is_rift_variable_size<T>
is_rift_pod(T) == T \in PodTypes \/ T \in traits.pod
is_rift_fixed_size(T) == is_rift_pod(T)
is_rift_variable_size(T) ==
    T \in {"std::string", "std::vector<float>"} \/ T \in traits.variable

\* the static_assert of RiftSerializerConceptCheck<T>
RiftSerializerConceptCheck(T) == ~(is_rift_fixed_size(T) /\ is_rift_variable_size(T))

\* a step of the program text: the builder and the views are not involved
TraitsFrame ==
    UNCHANGED <<bigEndian, debug, proc, m_capacity, m_data, m_current_offset,
                alloc, ops, ret, starts, entries, obj, view, res>>

Declaring == traits.build = "ok" /\ ops = 0

\* RIFT_SERIALIZER_DECLARE_RIFT_POD(T): an explicit specialization of
\* is_rift_pod_impl<T>, ill-formed when one exists or the trait was already
\* instantiated, and two static_asserts
DoDeclareRiftPod ==
    /\ Declaring
    /\ \E T \in TraitTypes :
         traits' = IF \/ T \in PodTypes \cup traits.pod \cup traits.checked
                      \/ ~TriviallyCopyable(T)
                   THEN [traits EXCEPT !.build = "error"]
                   ELSE [traits EXCEPT !.pod = @ \cup {T}]
    /\ TraitsFrame

\* RIFT_SERIALIZER_DECLARE_RIFT_VARIABLE_SIZE(T): an explicit specialization
\* of is_rift_variable_size_impl<T>, and nothing else
DoDeclareRiftVariableSize ==
    /\ Declaring
    /\ \E T \in TraitTypes :
         traits' = IF T \in traits.variable \cup traits.checked
                   THEN [traits EXCEPT !.build = "error"]
                   ELSE [traits EXCEPT !.variable = @ \cup {T}]
    /\ TraitsFrame

\* template struct RiftSerializerConceptCheck<T>; written by the user
DoConceptCheck ==
    /\ Declaring
    /\ \E T \in TraitTypes :
         traits' = IF T \in traits.checked \/ ~RiftSerializerConceptCheck(T)
                   THEN [traits EXCEPT !.build = "error"]
                   ELSE [traits EXCEPT !.checked = @ \cup {T}]
    /\ TraitsFrame

\* the types the program writes with WriteValue<T>, and whether the call
\* compiles: T is fixed-size and to_little_endian accepts it
WrittenTypes == {"uint32", "char", "Vec3"}
WriteValueCompiles(T) ==
    /\ is_rift_fixed_size(T)
    /\ T \in PodTypes \/ (T = "char" /\ ~bigEndian)

\* WriteValue<T>(value) in a program that builds
DoWriteDeclared ==
    /\ traits.build = "ok"
    /\ CanStep
    /\ \E T \in WrittenTypes, g \in GarbageBytes :
         /\ WriteValueCompiles(T)
         /\ LET value == IF T \in PodTypes THEN SampleValue(T) ELSE <<99>>
                b == WriteValue(Builder, T, value, g)
            IN  /\ b.cap <= MaxCapacity
                /\ Commit(b)
                /\ ret' = Called("WriteValue", T, value, <<>>, b)
                /\ obj' = ObjAfterWrite(b)
         /\ traits' = [traits EXCEPT !.written = @ \cup {T}]
    /\ ops' = ops + 1
    /\ res' = NoRes
    /\ UNCHANGED <<bigEndian, debug, starts, entries, view>>

TraitsNext ==
    \/ DoDeclareRiftPod
    \/ DoDeclareRiftVariableSize
    \/ DoConceptCheck
    \/ DoWriteDeclared

TraitsSpec == Init /\ [][TraitsNext]_vars


(***************************************************************************)
(* The growth run: a RiftBufferBuilder(initial_capacity) with a small or   *)
(* empty initial capacity, every Builder operation, and EnsureCapacity     *)
(* called directly (it is a public member).                                *)
(***************************************************************************)
\* the initial_capacity arguments of the growth run
GrowthCapacities == {0, 4, 16}

\* the bytes_needed arguments of a direct EnsureCapacity call
BytesNeeded == {0, 1, 9, 20}

DoEnsureCapacity ==
    /\ CanStep
    /\ \E bytes_needed \in BytesNeeded, g \in GarbageBytes :
         LET b == EnsureCapacity(Builder, bytes_needed, g)
         IN  /\ b.cap <= MaxCapacity
             /\ Commit(b)
             /\ ret' = Called("EnsureCapacity", "none", ToBytes(bytes_needed, SizeTBytes),
                              <<>>, b)
             /\ obj' = ObjAfterWrite(b)
    /\ ops' = ops + 1
    /\ res' = NoRes
    /\ UNCHANGED <<bigEndian, debug, traits, starts, entries, view>>

GrowthInit ==
    /\ bigEndian \in BOOLEAN
    /\ debug \in BOOLEAN
    /\ proc = "running"
    /\ m_capacity \in GrowthCapacities
    /\ \E g \in GarbageBytes : m_data = [i \in 1..m_capacity |-> g]
    /\ m_current_offset = 0
    /\ alloc = 0
    /\ ops = 0
    /\ ret = NoRet
    /\ starts = {}
    /\ entries = NoEntries
    /\ obj = NoObj
    /\ view = NoView
    /\ res = NoRes
    /\ traits = NoTraits

GrowthNext ==
    \/ DoEnsureCapacity
    \/ DoBeginObject
    \/ DoEndObject
    \/ DoWriteValue(BuilderTypes, [T \in BuilderTypes |-> SampleValues(T)], MaxOps)
    \/ DoPadToAlignment
    \/ DoAddString
    \/ DoAddArray
    \/ DoReserveOffsetTableEntry
    \/ DoUpdateOffsetTableEntry
    \/ DoReset

GrowthSpec == GrowthInit /\ [][GrowthNext]_vars


(***************************************************************************)
(* Properties.                                                             *)
(***************************************************************************)
\* the 4 bytes at offset off of the object at ptr, as they lie in storage:
\* the little-endian wire form of a header field
WireAt(ptr, off) == SubSeq(m_data, ptr + off + 1, ptr + off + U32Bytes)

\* an accessor call was made on a view over the object most recently built
\* by BeginObject ... EndObject, with nothing done to the builder since
OnEndedObject ==
    /\ obj.state = "ended"
    /\ res.op # "none"
    /\ res.base = obj.start
    /\ res.op = "RiftBufferViewBase" \/ (view.ptr = obj.start /\ view.alloc = alloc)

\* C1: header round-trip.  For an object built as start = BeginObject(schema_id,
\* version_flags), any WriteValue / AddString / AddArray /
\* ReserveOffsetTableEntry / UpdateOffsetTableEntry / PadToAlignment calls
\* (buffer growth included), EndObject(start): a view constructed at
\* GetBufferPtr() + start passes validation, GetSchemaId() is schema_id and
\* GetTotalSize() is the value EndObject returned.
C1_HeaderRoundTrip ==
    OnEndedObject =>
        /\ res.op = "RiftBufferViewBase" =>
              res.outcome = "returned" /\ res.failed = {}
        /\ res.op = "GetSchemaId" => res.value = obj.schema_id
        /\ res.op = "GetTotalSize" => ZeroExtend(res.value, SizeTBytes) = obj.size

\* C2: buffer growth preserves content.  Whenever a write enlarges the
\* buffer, every byte previously written at an offset in [0, m_current_offset)
\* has the same value after the growth as before.
C2_GrowthPreservesContent ==
    [][m_capacity' > m_capacity =>
          \A i \in 1..m_current_offset : m_data'[i] = m_data[i]]_vars

\* C3: POD round-trip.  For every scalar type T and value v, WriteValue(v) at
\* an aligned offset o followed by GetFixedField<T>(buffer, o) returns
\* exactly v, on little-endian and on big-endian hosts.
C3_PodRoundTrip ==
    (/\ ret.op = "WriteValue"
     /\ res.op = "GetFixedField"
     /\ res.type = ret.type
     /\ res.base = 0
     /\ res.off = ToBytes(ret.at, U32Bytes)
     /\ is_aligned(ret.at, AlignOf(ret.type)))
    => (res.outcome = "returned" /\ res.value = ret.arg)

\* the total_size a validated view's header declares
DeclaredSize == ToNat(WireAt(view.ptr, OffTotalSize))

\* C4: bounds enforcement on every accessor.  For a validated view with header
\* total_size S, a fixed-field read, an array element read or an offset-table
\* entry lookup whose byte range ends past S fails with a bounds violation
\* (and so reads no byte outside [0, S) of the object).  Stated for the build
\* with RIFT_SERIALIZER_DEBUG, where every RIFT_ASSERT the accessor holds is
\* checked.
C4_BoundsEnforced ==
    (/\ debug
     /\ view.valid
     /\ res.op \in {"GetFixedField", "RiftArrayView", "GetOffsetTableEntry"}
     /\ res.base = view.ptr
     /\ res.hi > DeclaredSize)
    => res.outcome # "returned"

\* C5: GetPtrAtOffset(offset, size_needed) fails whenever the mathematical sum
\* offset + size_needed exceeds total_size, also when the machine addition
\* wraps around; it returns buffer_start + offset only when the sum is at most
\* total_size.  Stated for a validated view in the build with
\* RIFT_SERIALIZER_DEBUG, where the bounds check of GetPtrAtOffset is run.
C5_PtrAtOffsetBounds ==
    (debug /\ view.valid /\ res.op = "GetPtrAtOffset") =>
        (res.outcome = "returned"
            <=> ~SumExceeds(res.off, res.need, WireAt(view.ptr, OffTotalSize)))

\* C6: view construction rejects invalid headers.  Over a non-null buffer it
\* fails whenever the little-endian-decoded first 4 bytes differ from
\* RIFT_MAGIC_NUMBER and whenever the decoded total_size is below 16; it
\* succeeds (at an aligned address) when the magic is right and total_size is
\* at least 16.
C6_InvalidHeaderRejected ==
    (res.op = "RiftBufferViewBase" /\ res.base # NullPtr) =>
        LET good == /\ WireAt(res.base, OffMagic) = RIFT_MAGIC_NUMBER
                    /\ LeqW(ToBytes(HeaderSize, U32Bytes), WireAt(res.base, OffTotalSize))
        IN  /\ ~good => res.outcome # "returned"
            /\ (good /\ is_aligned(res.base, HeaderAlign)) => res.outcome = "returned"

\* C7: constructing a view over a buffer whose start address is not a
\* multiple of alignof(RiftObjectHeader) = 8 fails, even when the bytes there
\* hold a correct magic and a total_size of at least 16.  Stated for that
\* case in the build with RIFT_SERIALIZER_DEBUG, where the constructor's
\* checks are run.
C7_MisalignedRejected ==
    (/\ debug
     /\ res.op = "RiftBufferViewBase"
     /\ res.base # NullPtr
     /\ ~is_aligned(res.base, HeaderAlign)
     /\ WireAt(res.base, OffMagic) = RIFT_MAGIC_NUMBER
     /\ LeqW(ToBytes(HeaderSize, U32Bytes), WireAt(res.base, OffTotalSize)))
    => res.outcome # "returned"

\* C8: validation failures are unconditional and recoverable.  In every build
\* configuration a failed view-construction check or a failed bounds or
\* alignment check in an accessor yields a failure the caller sees: the
\* process is not terminated and the call does not return as if the check
\* had passed.
C8_FailuresRecoverable ==
    (res.op # "none" /\ res.failed # {}) => (res.outcome = "error" /\ proc = "running")

\* C9: EndObject capacity overflow.  When current_length - object_start_offset
\* exceeds the largest uint32, EndObject fails and stores no truncated size in
\* the header; otherwise the stored little-endian total_size is exactly
\* current_length - object_start_offset.
C9_EndObjectOverflow ==
    [][(ops' = ops + 1 /\ ret'.op = "EndObject") =>
          IF LeqW(ret'.result, UINT32_MAX)
          THEN /\ proc' = "running"
               /\ SubSeq(m_data', ToNat(ret'.arg) + OffTotalSize + 1,
                         ToNat(ret'.arg) + OffTotalSize + U32Bytes)
                  = Truncate(ret'.result, U32Bytes)
          ELSE /\ proc' # "running"
               /\ m_data' = m_data]_vars

\* C10 as claimed: after any sequence of Builder operations, every value
\* written with WriteValue<T> starts at a buffer offset that is a multiple of
\* alignof(T).
C10_EveryWriteValueAligned ==
    ret.op = "WriteValue" => is_aligned(ret.at, AlignOf(ret.type))

\* the last call was WriteValue<T> directly after PadToAlignment(alignof(T))
WriteAfterPad ==
    /\ ret.op = "WriteValue"
    /\ ret.after = "PadToAlignment"
    /\ ret.afterArg = ToBytes(AlignOf(ret.type), SizeTBytes)

\* C10: WriteValue<T> adds no padding of its own: a value written directly
\* after PadToAlignment(alignof(T)) starts at a buffer offset that is a
\* multiple of alignof(T), and the call moves the cursor by sizeof(T) from
\* there.
C10_WriteValueAlignedAfterPad ==
    WriteAfterPad =>
        /\ is_aligned(ret.at, AlignOf(ret.type))
        /\ m_current_offset = ret.at + SizeOf(ret.type)

\* a uint32 written at offset 4, after PadToAlignment(4) closed the gap that
\* the 3 bytes of AddString("hi") left
C10_Witness ==
    /\ WriteAfterPad
    /\ ret.type = "uint32"
    /\ ret.at = 4
    /\ SubSeq(m_data, 1, 4) = StringOf(2) \o <<0, 0>>

\* C11: AddString round-trip.  AddString(s) returns the cursor value before the
\* call, advances the cursor by length(s) + 1, leaves the characters of s at
\* [ret, ret + length(s)) and a 0 byte after them; a RiftStringView over
\* buffer + ret with length length(s) reports length() = length(s),
\* to_string() = s and empty() exactly when s is empty.
C11_AddStringRoundTrip ==
    ret.op = "AddString" =>
        LET at == ret.at
            n == Len(ret.arg)
        IN  /\ ret.result = ToBytes(at, U32Bytes)
            /\ m_current_offset = at + n + 1
            /\ SubSeq(m_data, at + 1, at + n) = ret.arg
            /\ m_data[at + n + 1] = 0
            /\ res.op = "RiftStringView" =>
                  /\ res.outcome = "returned"
                  /\ res.need = ToBytes(n, U32Bytes)
                  /\ res.value = ret.arg
                  /\ (res.type = "empty") <=> (n = 0)

\* C12: array round-trip.  RiftArrayView<T>(buffer + off, n)[i] for i < n
\* reads element i at byte offset i * sizeof(T) from the array start, the
\* product not truncated, for every element count a uint32 holds; and when
\* off = AddArray(e) and n is the length of e, the value read is e[i].
C12_ArrayRoundTrip ==
    (res.op = "RiftArrayView" /\ "index" \notin res.failed) =>
        /\ ToBytes(res.lo - ToNat(res.off), SizeTBytes)
              = MulW(ZeroExtend(res.need, SizeTBytes), SizeOf(res.type), 0)
        /\ (ret.op = "AddArray" /\ res.off = ret.result /\ res.type = ret.type) =>
              /\ res.outcome = "returned"
              /\ res.value = ret.arg[ToNat(res.need) + 1]

\* C13: index-range enforcement.  RiftArrayView::operator[](index) with
\* index >= size() and GetOffsetTableEntry with entry_index >=
\* expected_num_entries fail: neither returns an element value or an entry
\* pointer computed from the out-of-range index.
C13_IndexRangeEnforced ==
    (/\ res.op \in {"RiftArrayView", "GetOffsetTableEntry"}
     /\ "index" \in res.failed)
    => res.outcome # "returned"

\* C14: offset-table reserve / patch / resolve.  Consecutive
\* ReserveOffsetTableEntry calls return offsets 8 apart; every reserved entry
\* holds zeros until UpdateOffsetTableEntry patches it and from then on the
\* little-endian data_offset and data_size last patched, whatever is written
\* in between; and GetOffsetTableEntry(object_base, table_offset, k, n) on
\* the table of n consecutive entries returns entry k, whose decoded fields
\* are those.
C14_OffsetTableResolves ==
    /\ (ret.op = "ReserveOffsetTableEntry" /\ ret.after = "ReserveOffsetTableEntry")
          => ret.result = ToBytes(ret.at, SizeTBytes)
    /\ \A o \in DOMAIN entries :
          /\ WireAt(o, 0) = entries[o].offset
          /\ WireAt(o, U32Bytes) = entries[o].size
    /\ (res.op = "OffsetTableEntry" /\ IsTable) =>
          LET o == TableOffset + EntrySize * ToNat(res.need)
          IN  /\ res.outcome = "returned"
              /\ res.base + res.lo = o
              /\ res.value = entries[o].offset \o entries[o].size

\* C15: immutability after EndObject.  Once EndObject(start) has completed with
\* total size S, no later Builder operation other than Reset changes a byte in
\* [start, start + S).  Stated for the first operation after EndObject and
\* for operations that do not reallocate the storage.
C15_ImmutableAfterEndObject ==
    [][(/\ obj.state = "ended"
        /\ ops' = ops + 1
        /\ ret'.op # "Reset"
        /\ alloc' = alloc)
       => \A i \in (obj.start + 1)..(obj.start + ToNat(obj.size)) :
             m_data'[i] = m_data[i]]_vars

\* C16: Builder-returned data offsets are relative to the owning object's
\* start.  For data written inside the object begun at offset S, AddString
\* returns (the cursor before the call) - S and AddArray returns (the cursor
\* after its alignment padding) - S.
C16_OffsetsRelativeToObject ==
    (obj.state = "open" /\ ret.op \in {"AddString", "AddArray"}) =>
        LET position == IF ret.op = "AddString" THEN ret.at
                        ELSE align_up(ret.at, AlignOf(ret.type))
        IN  ret.result = ToBytes(position - obj.start, U32Bytes)

\* C17: no view read after its buffer is released.  A header read through a
\* RiftBufferViewBase constructed over GetBufferPtr() never reads a storage
\* block the Builder has released since the view was constructed.  Stated for
\* views whose construction passed every check.
C17_NoReadAfterRelease ==
    (view.valid /\ res.op \in {"GetSchemaId", "GetTotalSize", "GetVersionFlags"})
    => view.alloc = alloc

\* C19: canonical little-endian encoding.  WriteValue(x) stores the bytes of x
\* least significant first on either host; on a little-endian host
\* to_little_endian(x) = x and from_little_endian(x) = x for every scalar,
\* 1-byte values included; and from_little_endian(to_little_endian(x)) = x on
\* both hosts.
C19_CanonicalLittleEndian ==
    ret.op = "WriteValue" =>
        LET T == ret.type
            x == ret.arg
        IN  /\ SubSeq(m_data, ret.at + 1, ret.at + SizeOf(T)) = x
            /\ ~bigEndian => (to_little_endian(T, x) = x /\ from_little_endian(T, x) = x)
            /\ from_little_endian(T, to_little_endian(T, x)) = x

\* the calls that return bytes read from the buffer, decoded from little-endian
ReadsScalar(r) ==
    /\ r.op \in {"GetSchemaId", "GetTotalSize", "GetVersionFlags", "GetFixedField",
                 "RiftArrayView"}
    /\ r.type \in {"uint16", "uint32"}
    /\ r.outcome = "returned"
    /\ r.base + r.hi <= Len(m_data)

C20_ClassificationExclusive ==
    \A T \in TraitTypes :
        (is_rift_fixed_size(T) /\ is_rift_variable_size(T)) => T \notin traits.written

\* the calls that append at the cursor (WriteRaw is the body of each)
AppendCalls ==
    {"WriteValue", "PadToAlignment", "BeginObject", "ReserveOffsetTableEntry",
     "AddString", "AddArray"}

\* C21: growth policy.  After EnsureCapacity(n) the capacity is at least
\* m_current_offset + n; a call that changes the capacity at least doubles
\* it; no operation, Reset included, lowers the capacity; the cursor never
\* passes the capacity; and no append call trips the overflow assertion of
\* AdvanceOffset.
C21_GrowthPolicy ==
    [][/\ m_capacity' >= m_capacity
       /\ (m_capacity' # m_capacity) => (m_capacity' >= 2 * m_capacity)
       /\ (ops' = ops + 1 /\ ret'.op = "EnsureCapacity") =>
             (m_capacity' >= m_current_offset' + ToNat(ret'.arg))
       /\ m_current_offset' <= m_capacity'
       /\ (ops' = ops + 1 /\ ret'.op \in AppendCalls) => (proc' = "running")]_vars

\* EnsureCapacity(9) at cursor 8 of a full 8-byte buffer grew it to 17 bytes:
\* the sum m_current_offset + bytes_needed exceeded twice the capacity
C21_Witness ==
    /\ ret.op = "EnsureCapacity"
    /\ ret.grew
    /\ ret.at = 8
    /\ ret.arg = ToBytes(9, SizeTBytes)
    /\ m_capacity = 17

\* the alignment an aligning call pads the cursor to: alignof(RiftObjectHeader),
\* alignof(OffsetTableEntry) or alignof(T_Element)
AlignmentOf(r) ==
    CASE r.op = "BeginObject" -> HeaderAlign
      [] r.op = "ReserveOffsetTableEntry" -> EntryAlign
      [] r.op = "AddArray" -> AlignOf(r.type)

\* C22: aligned start offsets with zero padding.  From any cursor c,
\* BeginObject, ReserveOffsetTableEntry and AddArray<T> return the smallest
\* multiple of 8, of 4 and of alignof(T) that is >= c, which is
\* align_up(c, alignment); the padding bytes skipped, [c, returned offset),
\* are all zero; and every element of the array lies at a multiple of
\* alignof(T).
C22_AlignedStartZeroPadding ==
    ret.op \in {"BeginObject", "ReserveOffsetTableEntry", "AddArray"} =>
        LET a == AlignmentOf(ret)
            c == ret.at
            start == ToNat(ret.result)
        IN  /\ start = align_up(c, a)
            /\ is_aligned(start, a) /\ start >= c /\ start - c < a
            /\ \A i \in (c + 1)..start : m_data[i] = 0
            /\ ret.op = "AddArray" =>
                  \A i \in 0..(Len(ret.arg) - 1) :
                      is_aligned(start + i * SizeOf(ret.type), a)

\* a step of the builder that leaves the capacity, the storage block and the
\* cursor as they were and changes no byte of the storage outside [lo, hi)
TouchesOnly(lo, hi) ==
    /\ m_capacity' = m_capacity
    /\ alloc' = alloc
    /\ m_current_offset' = m_current_offset
    /\ \A i \in 1..m_capacity : (i <= lo \/ i > hi) => m_data'[i] = m_data[i]

\* both preconditions of UpdateOffsetTableEntry for the entry offset o when
\* the cursor is cur
EntryPreconditions(o, cur) == o + EntrySize <= cur /\ is_aligned(o, EntryAlign)

C24_TotalSizeAtLeastHeader ==
    [][/\ ~(ops' = ops + 1 /\ ret'.op = "Reset") => m_current_offset' >= m_current_offset
       /\ (ops' = ops + 1 /\ ret'.op = "EndObject") =>
             LET start == ToNat(ret'.arg)
                 total_object_size == ret'.result
             IN  /\ LeqW(ToBytes(HeaderSize, SizeTBytes), total_object_size)
                 /\ LeqW(total_object_size, UINT32_MAX)
                 /\ start + HeaderSize <= m_current_offset
                 /\ proc' = "running"
                 /\ SubSeq(m_data', start + OffTotalSize + 1, start + OffTotalSize + U32Bytes)
                    = Truncate(total_object_size, U32Bytes)]_vars

=============================================================================
